---- MODULE Spec2Model ----
(***************************************************************************)
(* Heron's fountain simulation engine (src/src/herons_fountain).           *)
(*                                                                         *)
(* Numbers.  The JavaScript code computes with floats.  Here every vessel   *)
(* level, the air pressure and the flow intensity is a fixed-point integer  *)
(* in the unit getStatus() reports them in: hundredths (percent), so 1.0 is *)
(* Percent.  A product of rates is computed exactly and then rounded toward *)
(* zero to a whole unit (TruncDiv).  dt is in whole simulated seconds, the  *)
(* wall clock (performance.now, setTimeout) in milliseconds, and the pivot  *)
(* rotation in thousandths of PI.                                           *)
(***************************************************************************)
EXTENDS Integers, Sequences, FiniteSets, TLC

\* ---------------------------------------------------------------- numbers

\* getStatus() reports a level x as Math.round(x * 100): the model's unit.
Percent == 100

Min(a, b) == IF a <= b THEN a ELSE b
Max(a, b) == IF a >= b THEN a ELSE b

\* Math.max(0, Math.min(1, x))
Clamp01(x) == Max(0, Min(Percent, x))

\* A float product brought back to whole units, rounded toward zero.
TruncDiv(n, d) == IF n >= 0 THEN n \div d ELSE -((-n) \div d)

\* ------------------------------------------------------ program constants

\* this.flowRate = 0.05, in hundredths
flowRate == 5
\* this.maxParticles
maxParticles == 400
\* createFountainParticles: Math.max(25, ...)
MinJetParticles == 25
\* this.maxRipples
maxRipples == 6
\* update: ripples older than 4 s are culled
RippleLifetime == 4
\* updateParticles retires every visible particle in a tick of 2 s or more
SweepDt == 2
\* this.bowlParams: bottomY, innerTopR, absorbY, in thousandths
bottomY == 3350
innerTopR == 1500
absorbY == 3600
\* updateParticles: bottomCollisionY = bottomY - 0.2, the cull radius
\* innerTopR + 0.15, the cull height absorbY + 0.2, gravity 9.8
FloorMargin == 200
CullMargin == 150
CullBand == 200
Gravity == 9800
\* spawnSplash: a splash particle starts 0.02 above the impact
SplashLift == 20
\* createFountainParticles: the spawn point spoutTip.lerp(bowlCenter, 0.22),
\* spoutTip being at (0.05, 5.25, 0), and the jet speed 1.6 + 4.2 * pressure
JetSpawnX == 39
JetSpawnY == 4887
JetBaseSpeed == 1600
JetSpeedPerPressure == 42
\* animateFlip: duration, ms
FlipDuration == 1000
\* Reset.flipSystem / Reset.resetSystem: setTimeout delays, ms
FlipBusyMs == 1500
ResetBusyMs == 1000
\* checkAutoFlip thresholds 0.98 and 0.02, and the jet gate 0.05
LowerFullLevel == 98
UpperEmptyLevel == 2
JetPressureGate == 5

\* ----------------------------------------------------------------- bounds

\* the most hoses the hose list is grown to by the connect commands
MaxHoses == 4
\* this.time is kept between MaxBackTicks long ticks before zero and
\* MaxSimTicks long ticks after it
MaxSimTicks == 3
MaxBackTicks == 1
\* the wall clock stops after MaxNow half seconds
MaxNow == 4
\* the long run stops after MaxCycleTicks long ticks of simulated time
MaxCycleTicks == 4
\* the most flip callback chains pending at a time
MaxChains == 2

\* the seconds of simulated time in a long tick
LongTick == 20

\* the animation loop stops after MaxLoopSeconds seconds of wall clock
MaxLoopSeconds == 4
\* the unattended run stops after MaxAutoSeconds seconds of wall clock
MaxAutoSeconds == 100
\* the particle run stops after ParticleSeconds simulated seconds
ParticleSeconds == 3
\* the scenario ticks stop after ScenarioSeconds simulated seconds
ScenarioSeconds == 10

\* dt values of the short ticks, in seconds: the shortest the model has
ShortDtSet == {1, 2}
\* intensities the scenario is started with, in hundredths
ScenarioIntensitySet == {50, 100}
\* dt values passed to update(), in seconds: negative, zero, a long tick
DtSet == {-LongTick, 0, LongTick}
\* the dt values of a tick driver that keeps dt >= 0
TickSet == {0, LongTick}
\* values passed to setFlowIntensity, in hundredths: below 0, in range, above 1
IntensitySet == {-50, 0, 100, 150}
\* wall-clock time between two animation frames, ms
FrameGapSet == {500, 1000}
\* wall-clock time between two frames of the animation loop, ms
LoopGapSet == {1000, 2000}
\* wall-clock time between two frames of the unattended run, ms: slow frames,
\* each longer than a flip animation
AutoGapSet == {2000, LongTick * 1000}
\* dt of a pass over the followed particle, ms: a slow frame
FineDtSet == {100}
\* the draws of createFountainParticles for one particle: the pressure it
\* reads (hundredths, above the gate), 1 + Math.random() * 0.3 as thousandths,
\* maxLife = 0.9 + Math.random() * 0.8 in ms
JetDrawSet == [pressure : {6, 60}, factor : {1000, 1300}, maxLife : {900, 1700}]
\* the draws of spawnSplash for one particle: speed = 0.8 + Math.random() * 0.6
\* at its lower end, the horizontal velocity cos(angle) * 0.3 at angle 0 and PI,
\* maxLife = 0.3 + Math.random() * 0.4 in ms
SplashDrawSet == [speed : {800}, vx : {-300, 300}, maxLife : {300, 700}]
Keys == {"A", "B", "C"}
\* spawnSplash: count = 6 + Math.floor(Math.random() * 6), its two extremes
SplashCountSet == {6, 11}
\* how many of the particles visited in a pass reach the water surface
HitSet == {0, 4, 40}
\* the from/to pairs passed to addFreeformHoseWithPoints and addHoseCurved
ConnectPairs == {<<"B", "C">>, <<"A", "A">>}

\* ------------------------------------------------------------------ hoses

\* A hose record: from/to container keys and the port objects it is anchored
\* to; "none" stands for a hose created without startObj/endObj (addHose).
NoPort == "none"

\* addDefaultDiagramHoses: P1 drain, P2 air line, P3 riser
DrainHose == [from |-> "A", to |-> "C", startObj |-> "A.drain", endObj |-> "C.bottom"]
AirLineHose == [from |-> "C", to |-> "B", startObj |-> "C.top", endObj |-> "B.top"]
RiserHose == [from |-> "B", to |-> "A", startObj |-> "B.bottom", endObj |-> "A.nozzle"]

addDefaultDiagramHoses == <<DrainHose, AirLineHose, RiserHose>>

\* this.hoses.some(h => h is the given anchored hose)
HasHose(hs, h) == \E i \in 1..Len(hs) : hs[i] = h

\* this.hoses.filter(h => !(h.from === key || h.to === key))
RECURSIVE FilterOut(_, _)
FilterOut(hs, key) ==
    IF hs = <<>> THEN <<>>
    ELSE IF Head(hs).from = key \/ Head(hs).to = key
         THEN FilterOut(Tail(hs), key)
         ELSE <<Head(hs)>> \o FilterOut(Tail(hs), key)

\* chooseDefaultPort: the bowl A stands at x = 0, the side group (B and C,
\* stacked, same x) to its right; side = toPos.x >= fromPos.x ? right : left
ContainerX(key) == IF key = "A" THEN 0 ELSE 1
chooseDefaultPort(fromKey, toKey) ==
    IF ContainerX(toKey) >= ContainerX(fromKey)
    THEN fromKey \o ".right"
    ELSE fromKey \o ".left"

\* the record addHose pushes: no anchors
PlainHose(fromKey, toKey) ==
    [from |-> fromKey, to |-> toKey, startObj |-> NoPort, endObj |-> NoPort]

\* the record addFreeformHoseWithPoints pushes
FreeformHose(fromKey, toKey) ==
    [from |-> fromKey, to |-> toKey,
     startObj |-> chooseDefaultPort(fromKey, toKey),
     endObj |-> chooseDefaultPort(toKey, fromKey)]

\* rebuildTubeForHose dereferences hose.startObj: it throws on a plain hose
RebuildThrows(hs) == \E i \in 1..Len(hs) : hs[i].startObj = NoPort

\* --------------------------------------------------------- transfer engine

\* updateWaterFlow step 1: the drain debits B and credits C
DrainStep(w, hs, fi, dt) ==
    IF HasHose(hs, DrainHose)
    THEN LET drainAmount == TruncDiv(6 * flowRate * fi * dt, 1000)
             actualDrain == Min(drainAmount, Min(w.B, Percent - w.C))
         IN  [w EXCEPT !.B = w.B - actualDrain, !.C = w.C + actualDrain]
    ELSE w

\* updateWaterFlow step 2: the amount the riser takes out of B (credited nowhere)
RiserFlow(w, hs, fi, p, dt) ==
    IF HasHose(hs, RiserHose) /\ p > JetPressureGate /\ w.B > 0
    THEN Min(TruncDiv(flowRate * 125 * fi * p * dt, 1000000), w.B)
    ELSE 0

\* actualFlow > 0, on the exact product (before it is rounded to whole units)
RiserJets(w, hs, fi, p, dt) ==
    HasHose(hs, RiserHose) /\ p > JetPressureGate /\ w.B > 0 /\ fi * p * dt > 0

RiserStep(w, hs, fi, p, dt) == [w EXCEPT !.B = w.B - RiserFlow(w, hs, fi, p, dt)]

\* updateWaterFlow step 4: every hose but the air line moves water from -> to
HoseRate(h, fi, dt) ==
    IF h.startObj = "B.bottom" \/ h.startObj = "C.bottom"
    THEN TruncDiv(16 * 9 * flowRate * fi * dt, 10000)
    ELSE TruncDiv(9 * flowRate * fi * dt, 1000)

\* moved without the limit of the receiving vessel's free capacity
HoseMovedNoCapacity(w, h, fi, dt) ==
    Max(0, Min(HoseRate(h, fi, dt), w[h.from]))

HoseMoved(w, h, fi, dt) ==
    Max(0, Min(HoseRate(h, fi, dt), Min(w[h.from], Percent - w[h.to])))

\* the hose loop's body without its air-only exemption
HoseTransferWet(w, h, fi, dt) ==
    LET moved == HoseMoved(w, h, fi, dt)
        debited == [w EXCEPT ![h.from] = w[h.from] - moved]
    IN  IF moved > 0
        THEN [debited EXCEPT ![h.to] = debited[h.to] + moved]
        ELSE w

HoseTransfer(w, h, fi, dt) ==
    IF h.startObj = "C.top" /\ h.endObj = "B.top"
    THEN w
    ELSE LET moved == HoseMoved(w, h, fi, dt)
             debited == [w EXCEPT ![h.from] = w[h.from] - moved]
         IN  IF moved > 0
             THEN [debited EXCEPT ![h.to] = debited[h.to] + moved]
             ELSE w

RECURSIVE HoseLoop(_, _, _, _)
HoseLoop(w, hs, fi, dt) ==
    IF hs = <<>> THEN w
    ELSE HoseLoop(HoseTransfer(w, Head(hs), fi, dt), Tail(hs), fi, dt)

\* updateWaterFlow with the drain step and the hose loop left out
updateWaterFlowRiserOnly(w, hs, fi, p, dt) == RiserStep(w, hs, fi, p, dt)

\* updateWaterFlow: levels after steps 1, 2 and 4
updateWaterFlow(w, hs, fi, p, dt) ==
    HoseLoop(RiserStep(DrainStep(w, hs, fi, dt), hs, fi, p, dt), hs, fi, dt)

\* updateAirPressure with sealFactor 1 whether or not the air line is there
updateAirPressureSealed(w, airLine) ==
    Clamp01(TruncDiv(4 * Max(0, w.C - w.B) + Min(Percent, (Percent - w.A) + w.C), 2))

\* updateAirPressure, on the levels left by updateWaterFlow
updateAirPressure(w, airLine) ==
    LET heightHead == Max(0, w.C - w.B)
        inflowFactor == Min(Percent, (Percent - w.A) + w.C)
        raw == 4 * heightHead + inflowFactor
    IN  Clamp01(IF airLine THEN TruncDiv(raw, 2) ELSE TruncDiv(raw, 10))

\* updateWaterLevels with the clamps left out
updateWaterLevelsUnclamped(w) == w

\* updateWaterLevels: B and C are clamped, A is only read
updateWaterLevels(w) == [w EXCEPT !.B = Clamp01(w.B), !.C = Clamp01(w.C)]

\* createFountainParticles: the particleCount it asks for; the gates read
\* this.airLineConnected and this.airPressure as the previous tick left them
particleCount(airLine, p, fi) ==
    IF ~airLine \/ p <= JetPressureGate
    THEN 0
    ELSE Max(MinJetParticles, TruncDiv((50 + fi) * p * 120, 100 * Percent))

\* createFountainParticles taking a slot for every particle it asks for
createFountainParticlesNoFind(vis, airLine, p, fi) == particleCount(airLine, p, fi)

\* createFountainParticles: how many pool slots it makes visible, vis of the
\* maxParticles slots being visible already: each of the particleCount rounds
\* takes the first invisible slot, and does nothing when there is none
createFountainParticles(vis, airLine, p, fi) ==
    Min(particleCount(airLine, p, fi), maxParticles - vis)

\* spawnSplash: how many pool slots it makes visible; it returns at the first
\* round that finds no invisible slot
spawnSplash(vis, count) == Min(count, maxParticles - vis)

\* activeRipples.unshift(ripple) without the pop that follows it
addRippleNoPop(ripples, startTime) == <<startTime>> \o ripples

\* activeRipples.unshift(ripple); if (length > maxRipples) pop().  A ripple is
\* modelled by its startTime.
addRipple(ripples, startTime) ==
    LET grown == <<startTime>> \o ripples
    IN  IF Len(grown) > maxRipples THEN SubSeq(grown, 1, Len(grown) - 1) ELSE grown

\* activeRipples.filter(r => now - r.startTime < 4)
RECURSIVE cullRipples(_, _)
cullRipples(ripples, clock) ==
    IF ripples = <<>> THEN <<>>
    ELSE IF clock - Head(ripples) < RippleLifetime
         THEN <<Head(ripples)>> \o cullRipples(Tail(ripples), clock)
         ELSE cullRipples(Tail(ripples), clock)

\* updateParticles.  Positions, velocities and lifetimes are not modelled:
\* which branch a visited particle takes is the outcome rnd of the pass.
\*   rnd.hits     the first rnd.hits particles visited reach the water surface
\*                (spawnSplash, a ripple, then the particle is hidden)
\*   rnd.rest     what the others do: "hide" (floor, cull or end of life) or
\*                "stay"
\*   rnd.count    the count each spawnSplash call draws
\*   rnd.revisit  whether the slots spawnSplash takes lie after the slot being
\*                visited, so that the forEach visits them in this pass too
\* The loop state: visible slots, visible slots still to visit, the ripple
\* list, spawn rounds that found no slot, whether a ripple was popped.
RECURSIVE forEachParticle(_, _, _, _)
forEachParticle(st, hits, rnd, startTime) ==
    IF st.due = 0 \/ hits = 0
    THEN IF rnd.rest = "hide"
         THEN [st EXCEPT !.visible = st.visible - st.due, !.due = 0]
         ELSE [st EXCEPT !.due = 0]
    ELSE LET made == spawnSplash(st.visible, rnd.count)
         IN  forEachParticle(
                 [visible |-> st.visible + made - 1,
                  due |-> st.due - 1 + (IF rnd.revisit THEN made ELSE 0),
                  ripples |-> addRipple(st.ripples, startTime),
                  dropped |-> st.dropped + (rnd.count - made),
                  evicted |-> st.evicted \/ Len(st.ripples) = maxRipples,
                  impacts |-> st.impacts + 1],
                 hits - 1, rnd, startTime)

\* A particle starts at most 2.1 above the floor plane (spout tip 5.25,
\* bottomY - 0.2 = 3.15) and falls at 1.58 or more, within the bowl radius; a
\* splash particle rises at 0.8 or more from at most 1.6 below the highest
\* water surface and lives 0.7 s at most.  After a tick of SweepDt seconds or
\* more every visible particle, the ones spawned in this tick too, is hidden
\* by the floor rule or at the end of its life, and none reaches the surface.
updateParticles(vis, ripples, startTime, dt, rnd) ==
    LET sweep == [rnd EXCEPT !.hits = 0, !.rest = "hide"]
        st == [visible |-> vis, due |-> vis, ripples |-> ripples,
               dropped |-> 0, evicted |-> FALSE, impacts |-> 0]
    IN  IF dt >= SweepDt
        THEN forEachParticle(st, 0, sweep, startTime)
        ELSE forEachParticle(st, rnd.hits, rnd, startTime)

\* the pass in which every visited particle stays as it is
NoImpact == [hits |-> 0, rest |-> "stay", count |-> 6, revisit |-> FALSE]

\* the outcomes of the Math.random draws and of the particle motion
RandomSet ==
    [hits : HitSet, rest : {"hide", "stay"}, count : SplashCountSet, revisit : BOOLEAN]

\* ------------------------------------------------------------ flip, reset

\* the step callback animateFlip registers: its start time and start rotation
FlipStep(f, clock) == [start |-> clock, startRotation |-> f.sidePivot.rotX]

\* animateFlip (this.sideGroup is set by createContainers and never cleared):
\* the pivot is created at rotation 0 on the first flip
animateFlip(f) ==
    [f EXCEPT !.isFlipping = TRUE,
              !.sidePivot = [exists |-> TRUE, rotX |-> f.sidePivot.rotX]]

\* flipSystem animating without exchanging the levels
flipSystemNoSwap(f) ==
    IF f.isFlipping THEN f
    ELSE animateFlip([f EXCEPT !.airPressure = 0, !.isActive = TRUE])

\* flipSystem leaving the air pressure as it was
flipSystemKeepsPressure(f) ==
    IF f.isFlipping THEN f
    ELSE animateFlip([f EXCEPT !.waterLevels = [f.waterLevels EXCEPT
                                   !.B = f.waterLevels.C, !.C = f.waterLevels.B],
                               !.isActive = TRUE])

\* flipSystem without its isFlipping guard
flipSystemUnguarded(f) ==
    animateFlip([f EXCEPT !.waterLevels = [f.waterLevels EXCEPT
                              !.B = f.waterLevels.C, !.C = f.waterLevels.B],
                          !.airPressure = 0,
                          !.isActive = TRUE])

flipSystem(f) ==
    IF f.isFlipping THEN f
    ELSE animateFlip([f EXCEPT !.waterLevels = [f.waterLevels EXCEPT
                                   !.B = f.waterLevels.C, !.C = f.waterLevels.B],
                               !.airPressure = 0,
                               !.isActive = TRUE])

\* whether a flipSystem call on f registers a step callback
FlipRegisters(f) == ~f.isFlipping

AutoFlipDue(f) ==
    f.waterLevels.C >= LowerFullLevel \/ f.waterLevels.B <= UpperEmptyLevel

\* checkAutoFlip testing lowerFull only
checkAutoFlipLowerOnly(f) ==
    IF f.isFlipping THEN f
    ELSE IF f.waterLevels.C >= LowerFullLevel THEN flipSystem(f) ELSE f

checkAutoFlip(f) ==
    IF f.isFlipping THEN f
    ELSE IF AutoFlipDue(f) THEN flipSystem(f) ELSE f

InitLevels == [A |-> 75, B |-> 100, C |-> 26]

\* resetSystem re-seeding the default hoses onto the list it did not clear
resetSystemAppends(f) ==
    [f EXCEPT !.waterLevels = InitLevels,
              !.airPressure = 0,
              !.isActive = TRUE,
              !.sidePivot = [f.sidePivot EXCEPT !.rotX = 0],
              !.isFlipping = FALSE,
              !.hoses = f.hoses \o addDefaultDiagramHoses]

resetSystem(f) ==
    [f EXCEPT !.waterLevels = InitLevels,
              !.airPressure = 0,
              !.isActive = TRUE,
              !.sidePivot = [f.sidePivot EXCEPT !.rotX = 0],
              !.isFlipping = FALSE,
              !.hoses = <<>>]

\* the eased progress of a flip, in thousandths, t ms after its start
Eased(t) ==
    IF 2 * t < FlipDuration
    THEN TruncDiv(2 * t * t, FlipDuration)
    ELSE TruncDiv((4 * FlipDuration - 2 * t) * t, FlipDuration) - FlipDuration

\* one run of the step callback of animateFlip at frame time clock
StepDone(st, clock) == clock - st.start >= FlipDuration

step(f, st, clock) ==
    LET t == Min(clock - st.start, FlipDuration)
    IN  IF t < FlipDuration
        THEN [f EXCEPT !.sidePivot.rotX = st.startRotation + Eased(t)]
        ELSE [f EXCEPT !.sidePivot.rotX = st.startRotation + FlipDuration,
                       !.isFlipping = FALSE]

\* the browser runs the frame's callbacks in the order they were requested
RECURSIVE RunSteps(_, _, _)
RunSteps(f, q, clock) ==
    IF q = <<>> THEN f
    ELSE RunSteps(step(f, Head(q), clock), Tail(q), clock)

RECURSIVE KeepSteps(_, _)
KeepSteps(q, clock) ==
    IF q = <<>> THEN <<>>
    ELSE IF StepDone(Head(q), clock)
         THEN KeepSteps(Tail(q), clock)
         ELSE <<Head(q)>> \o KeepSteps(Tail(q), clock)

\* ----------------------------------------------------------------- update

\* whether updateWaterFlow calls createFountainParticles in update(f, dt)
JetCalled(f, dt) ==
    /\ f.isActive
    /\ RiserJets(DrainStep(f.waterLevels, f.hoses, f.flowIntensity, dt),
                 f.hoses, f.flowIntensity, f.airPressure, dt)

\* the number of pool slots createFountainParticles makes visible in update(f, dt)
JetSpawned(f, dt) ==
    IF JetCalled(f, dt)
    THEN createFountainParticles(f.visible, f.airLineConnected,
                                 f.airPressure, f.flowIntensity)
    ELSE 0

\* the particle pass of update(f, dt) under the outcome rnd
ParticlePass(f, dt, rnd) ==
    updateParticles(f.visible + JetSpawned(f, dt), f.activeRipples, f.time, dt, rnd)

\* update(deltaTime) up to and including checkAutoFlip
UpdateCore(f, dt, rnd) ==
    LET hasAirLine == HasHose(f.hoses, AirLineHose)
        w == updateWaterFlow(f.waterLevels, f.hoses, f.flowIntensity, f.airPressure, dt)
        pass == ParticlePass(f, dt, rnd)
    IN  checkAutoFlip(
          [f EXCEPT !.waterLevels = updateWaterLevels(w),
                    !.airLineConnected = hasAirLine,
                    !.airPressure = updateAirPressure(w, hasAirLine),
                    !.visible = pass.visible,
                    !.activeRipples = pass.ripples])

\* update(deltaTime) under the outcome rnd.  updateHoses throws on a hose
\* without anchors; the time advance and the ripple cull after it are then
\* skipped
updateRandom(f, dt, rnd) ==
    IF ~f.isActive THEN f
    ELSE LET g == UpdateCore(f, dt, rnd)
         IN  IF RebuildThrows(f.hoses) THEN g
             ELSE [g EXCEPT !.time = g.time + dt,
                            !.activeRipples = cullRipples(g.activeRipples, g.time + dt)]

\* update(deltaTime) when no visited particle reaches the surface or is hidden
\* in a tick shorter than SweepDt
update(f, dt) == updateRandom(f, dt, NoImpact)

\* whether update() on f raises the TypeError of rebuildTubeForHose
Throws(f) == f.isActive /\ RebuildThrows(f.hoses)

\* spawn rounds of update(f, dt) under rnd that found no invisible slot
Dropped(f, dt, rnd) ==
    IF ~f.isActive THEN 0
    ELSE (IF JetCalled(f, dt)
          THEN particleCount(f.airLineConnected, f.airPressure, f.flowIntensity)
                   - JetSpawned(f, dt)
          ELSE 0)
         + (IF dt < SweepDt /\ rnd.hits > 0
            THEN ParticlePass(f, dt, rnd).dropped
            ELSE 0)

\* whether update(f, dt) under rnd pops a ripple off a full activeRipples
Evicts(f, dt, rnd) ==
    /\ f.isActive
    /\ dt < SweepDt
    /\ rnd.hits > 0
    /\ ParticlePass(f, dt, rnd).evicted

\* the outcomes that make a difference in update(f, dt)
Outcomes(f, dt) ==
    IF ~f.isActive \/ dt >= SweepDt \/ f.visible + JetSpawned(f, dt) = 0
    THEN {NoImpact}
    ELSE RandomSet

\* whether updateWaterLevels changes a level in update(f, dt)
Clamps(f, dt) ==
    LET w == updateWaterFlow(f.waterLevels, f.hoses, f.flowIntensity, f.airPressure, dt)
    IN  f.isActive /\ updateWaterLevels(w) # w

\* whether update(f, dt) starts a flip through checkAutoFlip
UpdateFlips(f, dt) ==
    /\ f.isActive
    /\ ~f.isFlipping
    /\ AutoFlipDue([f EXCEPT !.waterLevels =
                       updateWaterLevels(updateWaterFlow(f.waterLevels, f.hoses,
                                             f.flowIntensity, f.airPressure, dt))])

\* ------------------------------------------------------------ hose commands

setFlowIntensity(f, value) == [f EXCEPT !.flowIntensity = Clamp01(value)]

removeHosesForContainer(f, key) == [f EXCEPT !.hoses = FilterOut(f.hoses, key)]

addHose(f, fromKey, toKey) ==
    [f EXCEPT !.hoses = Append(f.hoses, PlainHose(fromKey, toKey))]

\* the record addHoseCurved pushes has getPoints but, like addHose's, no anchors
addHoseCurved(f, fromKey, toKey) ==
    [f EXCEPT !.hoses = Append(f.hoses, PlainHose(fromKey, toKey))]

NoKey == "null"

handleContainerClick(f, key) ==
    IF f.pendingHoseStart = NoKey THEN [f EXCEPT !.pendingHoseStart = key]
    ELSE IF f.pendingHoseStart = key THEN [f EXCEPT !.pendingHoseStart = NoKey]
    ELSE [addHose(f, f.pendingHoseStart, key) EXCEPT !.pendingHoseStart = NoKey]

addFreeformHoseWithPoints(f, fromKey, toKey) ==
    [f EXCEPT !.hoses = Append(f.hoses, FreeformHose(fromKey, toKey))]

\* ---------------------------------------------------------- Reset controller

\* Reset.flipSystem / Reset.resetSystem: refused while isAnimating
CtlAccepts(r) == ~r.isAnimating

\* ------------------------------------------------------ one particle, closely

\* A particle followed with its position (x along the bowl's diameter, y up;
\* thousandths), velocity (thousandths per second) and age (ms).
ProbeInit ==
    [visible |-> FALSE, emitted |-> FALSE,
     x |-> 0, y |-> 0, vx |-> 0, vy |-> 0, life |-> 0, maxLife |-> 2000]

\* what one visit of updateParticles's forEach did to the particle
NoVisit == [rule |-> "none", x |-> 0, y |-> 0, expired |-> FALSE,
            splashes |-> 0, ripples |-> 0]

\* createFountainParticles, for the slot it takes
jetParticle(pr, draw) ==
    [pr EXCEPT !.visible = TRUE, !.emitted = TRUE,
               !.x = JetSpawnX, !.y = JetSpawnY,
               !.vx = 0,
               !.vy = -TruncDiv((JetBaseSpeed + JetSpeedPerPressure * draw.pressure)
                                   * draw.factor, 1000),
               !.life = 0, !.maxLife = draw.maxLife]

\* spawnSplash(position), for one slot it takes
splashParticle(pr, x, y, draw) ==
    [pr EXCEPT !.visible = TRUE,
               !.x = x, !.y = y + SplashLift,
               !.vx = draw.vx, !.vy = draw.speed,
               !.life = 0, !.maxLife = draw.maxLife]

\* the forEach body of updateParticles testing the water surface before the floor
visitSurfaceFirst(pr, dt) ==
    LET x1 == pr.x + TruncDiv(pr.vx * dt, 1000)
        y1 == pr.y + TruncDiv(pr.vy * dt, 1000)
        life1 == pr.life + dt
        withinRadius == x1 * x1 <= innerTopR * innerTopR
        moved == [pr EXCEPT !.x = x1, !.y = y1,
                            !.vy = pr.vy - TruncDiv(Gravity * dt, 1000),
                            !.life = life1]
        at == [NoVisit EXCEPT !.x = x1, !.y = y1, !.expired = life1 >= pr.maxLife]
    IN  IF y1 <= absorbY /\ withinRadius
        THEN [particle |-> [moved EXCEPT !.visible = FALSE],
              visit |-> [at EXCEPT !.rule = "surface", !.splashes = 1, !.ripples = 1]]
        ELSE [particle |-> [moved EXCEPT !.visible = life1 < pr.maxLife],
              visit |-> [at EXCEPT !.rule = IF life1 >= pr.maxLife THEN "age" ELSE "none"]]

\* the forEach body of updateParticles for a visible particle and dt in ms:
\* move, gravity, age, then the floor, the outside cull (both return), the
\* water surface (spawnSplash and a ripple) and the end of life
visit(pr, dt) ==
    LET x1 == pr.x + TruncDiv(pr.vx * dt, 1000)
        y1 == pr.y + TruncDiv(pr.vy * dt, 1000)
        life1 == pr.life + dt
        withinRadius == x1 * x1 <= innerTopR * innerTopR
        moved == [pr EXCEPT !.x = x1, !.y = y1,
                            !.vy = pr.vy - TruncDiv(Gravity * dt, 1000),
                            !.life = life1]
        at == [NoVisit EXCEPT !.x = x1, !.y = y1, !.expired = life1 >= pr.maxLife]
    IN  IF y1 <= bottomY - FloorMargin /\ withinRadius
        THEN [particle |-> [moved EXCEPT !.visible = FALSE, !.vx = 0, !.vy = 0],
              visit |-> [at EXCEPT !.rule = "floor"]]
        ELSE IF x1 * x1 > (innerTopR + CullMargin) * (innerTopR + CullMargin)
                  /\ y1 <= absorbY + CullBand
        THEN [particle |-> [moved EXCEPT !.visible = FALSE],
              visit |-> [at EXCEPT !.rule = "cull"]]
        ELSE IF y1 <= absorbY /\ withinRadius
        THEN [particle |-> [moved EXCEPT !.visible = FALSE],
              visit |-> [at EXCEPT !.rule = "surface", !.splashes = 1, !.ripples = 1]]
        ELSE [particle |-> [moved EXCEPT !.visible = life1 < pr.maxLife],
              visit |-> [at EXCEPT !.rule = IF life1 >= pr.maxLife THEN "age" ELSE "none"]]

\* ---------------------------------------------------------- animation loop

\* THREE.Clock.getDelta() at wall-clock time clock, in seconds: the time since
\* the previous getDelta call; the call that starts the clock returns 0
getDelta(c, clock) ==
    IF ~c.running THEN 0 ELSE TruncDiv(clock - c.oldTime, 1000)

\* the clock after a getDelta call at time clock
ClockRead(c, clock) == [running |-> TRUE, oldTime |-> clock]

togglePause(a) == [a EXCEPT !.isPaused = ~a.isPaused]

\* ------------------------------------------------------------------- state

VARIABLES
    fountain,   \* the Fountain object's fields
    rafQueue,   \* flip step callbacks waiting for the next animation frame
    now,        \* performance.now(), ms
    reset,      \* the Reset controller's fields
    timers,     \* due times of the controller's pending setTimeout callbacks
    app,        \* the HeronsFountain application: isPaused and its THREE.Clock
    probe,      \* one particle of the pool, followed with its position and speed
    last        \* what the handler that ran last did (observation only)

vars == <<fountain, rafQueue, now, reset, timers, app, probe, last>>

\* the Fountain constructor
FountainInit ==
    [waterLevels |-> InitLevels,
     airPressure |-> 0,
     flowIntensity |-> 25,
     isActive |-> TRUE,
     isFlipping |-> FALSE,
     hoses |-> addDefaultDiagramHoses,
     airLineConnected |-> FALSE,
     pendingHoseStart |-> NoKey,
     time |-> 0,
     sidePivot |-> [exists |-> FALSE, rotX |-> 0],
     visible |-> 0,
     activeRipples |-> <<>>]

Obs(op) ==
    [op |-> op, dt |-> 0, wasFlipping |-> fountain.isFlipping,
     due |-> FALSE, jet |-> 0, clamped |-> FALSE, accepted |-> TRUE,
     threw |-> FALSE, dropped |-> 0, evicted |-> FALSE, ticked |-> FALSE,
     particle |-> NoVisit, calm |-> last.calm]

\* the HeronsFountain constructor: not paused, a THREE.Clock that starts at its
\* first getDelta call
AppInit == [isPaused |-> FALSE, clock |-> [running |-> FALSE, oldTime |-> 0]]

Init ==
    /\ fountain = FountainInit
    /\ rafQueue = <<>>
    /\ now = 0
    /\ reset = [isAnimating |-> FALSE]
    /\ timers = {}
    /\ app = AppInit
    /\ probe = ProbeInit
    /\ last = [op |-> "new", dt |-> 0, wasFlipping |-> FALSE,
               due |-> FALSE, jet |-> 0, clamped |-> FALSE, accepted |-> TRUE,
               threw |-> FALSE, dropped |-> 0, evicted |-> FALSE, ticked |-> FALSE,
               particle |-> NoVisit, calm |-> TRUE]

\* the queue after a flipSystem call on f at the current time
Requested(f) ==
    IF FlipRegisters(f) THEN Append(rafQueue, FlipStep(f, now)) ELSE rafQueue

ChainRoom(f) == FlipRegisters(f) => Len(rafQueue) < MaxChains

\* ----------------------------------------------------------------- actions

\* fountain.update(dt) under the outcome rnd
UpdateWith(dt, rnd) ==
    /\ UpdateFlips(fountain, dt) => Len(rafQueue) < MaxChains
    /\ fountain' = updateRandom(fountain, dt, rnd)
    /\ rafQueue' = IF UpdateFlips(fountain, dt)
                   THEN Append(rafQueue, FlipStep(fountain, now))
                   ELSE rafQueue
    /\ last' = [Obs("update") EXCEPT
                   !.dt = dt,
                   !.due = fountain.isActive /\ ~fountain.isFlipping /\ AutoFlipDue(fountain),
                   !.jet = JetSpawned(fountain, dt),
                   !.clamped = Clamps(fountain, dt),
                   !.threw = Throws(fountain),
                   !.dropped = Dropped(fountain, dt, rnd),
                   !.evicted = Evicts(fountain, dt, rnd)]
    /\ UNCHANGED <<now, reset, timers, app, probe>>

\* fountain.update(dt)
UpdateCall(dt) == \E rnd \in Outcomes(fountain, dt) : UpdateWith(dt, rnd)

\* fountain.update(dt) within the window of simulated time
Update(dt) ==
    /\ fountain.time + dt <= MaxSimTicks * LongTick
    /\ fountain.time + dt >= -(MaxBackTicks * LongTick)
    /\ UpdateCall(dt)

\* a tick with dt >= 0
UpdateTick == \E dt \in TickSet : Update(dt)

\* a tick with any dt, this.time kept within MaxBackTicks long ticks of zero
UpdateAnyTick ==
    \E dt \in DtSet :
        /\ fountain.time + dt <= MaxBackTicks * LongTick
        /\ Update(dt)

SetFlowIntensity ==
    \E v \in IntensitySet :
        /\ fountain' = setFlowIntensity(fountain, v)
        /\ last' = Obs("command")
        /\ UNCHANGED <<rafQueue, now, reset, timers, app, probe>>

\* fountain.flipSystem()
FlipSystem ==
    /\ ChainRoom(fountain)
    /\ fountain' = flipSystem(fountain)
    /\ rafQueue' = Requested(fountain)
    /\ last' = Obs("flipSystem")
    /\ UNCHANGED <<now, reset, timers, app, probe>>

\* fountain.resetSystem()
ResetSystem ==
    /\ fountain' = resetSystem(fountain)
    /\ last' = Obs("resetSystem")
    /\ UNCHANGED <<rafQueue, now, reset, timers, app, probe>>

RemoveHosesForContainer ==
    \E key \in Keys :
        /\ fountain' = removeHosesForContainer(fountain, key)
        /\ last' = Obs("command")
        /\ UNCHANGED <<rafQueue, now, reset, timers, app, probe>>

HandleContainerClick ==
    \E key \in Keys :
        /\ Len(fountain.hoses) < MaxHoses
        /\ fountain' = handleContainerClick(fountain, key)
        /\ last' = Obs("command")
        /\ UNCHANGED <<rafQueue, now, reset, timers, app, probe>>

AddFreeformHose ==
    \E pair \in ConnectPairs :
        /\ Len(fountain.hoses) < MaxHoses
        /\ fountain' = addFreeformHoseWithPoints(fountain, pair[1], pair[2])
        /\ last' = Obs("command")
        /\ UNCHANGED <<rafQueue, now, reset, timers, app, probe>>

AddHoseCurved ==
    \E pair \in ConnectPairs :
        /\ Len(fountain.hoses) < MaxHoses
        /\ fountain' = addHoseCurved(fountain, pair[1], pair[2])
        /\ last' = Obs("command")
        /\ UNCHANGED <<rafQueue, now, reset, timers, app, probe>>

\* an animation frame: the browser runs the pending step callbacks
AnimationFrame ==
    \E gap \in FrameGapSet :
        /\ now + gap <= MaxNow * 500
        /\ now' = now + gap
        /\ fountain' = RunSteps(fountain, rafQueue, now')
        /\ rafQueue' = KeepSteps(rafQueue, now')
        /\ last' = Obs("frame")
        /\ UNCHANGED <<reset, timers, app, probe>>

\* Reset.flipSystem(): the Flip button and the R key
CtlFlipSystem ==
    /\ CtlAccepts(reset) => ChainRoom(fountain)
    /\ IF CtlAccepts(reset)
       THEN /\ reset' = [reset EXCEPT !.isAnimating = TRUE]
            /\ fountain' = flipSystem(fountain)
            /\ rafQueue' = Requested(fountain)
            /\ timers' = timers \cup {now + FlipBusyMs}
       ELSE UNCHANGED <<reset, fountain, rafQueue, timers>>
    /\ last' = [Obs("Reset.flipSystem") EXCEPT !.accepted = CtlAccepts(reset)]
    /\ UNCHANGED <<now, app, probe>>

\* Reset.resetSystem(): the Reset button
CtlResetSystem ==
    /\ IF CtlAccepts(reset)
       THEN /\ reset' = [reset EXCEPT !.isAnimating = TRUE]
            /\ fountain' = resetSystem(fountain)
            /\ timers' = timers \cup {now + ResetBusyMs}
       ELSE UNCHANGED <<reset, fountain, timers>>
    /\ last' = [Obs("Reset.resetSystem") EXCEPT !.accepted = CtlAccepts(reset)]
    /\ UNCHANGED <<rafQueue, now, app, probe>>

\* a setTimeout callback of the controller, once due
TimerFires ==
    \E due \in timers :
        /\ now >= due
        /\ reset' = [reset EXCEPT !.isAnimating = FALSE]
        /\ timers' = timers \ {due}
        /\ last' = Obs("timer")
        /\ UNCHANGED <<fountain, rafQueue, now, app, probe>>

\* the start of the scenario: the intensity is set before the first tick
ScenarioStart ==
    \E v \in ScenarioIntensitySet :
        /\ fountain.time = 0
        /\ last.op = "new"
        /\ fountain' = setFlowIntensity(fountain, v)
        /\ last' = Obs("command")
        /\ UNCHANGED <<rafQueue, now, reset, timers, app, probe>>

\* a short tick of the scenario, the particles left as they are
ScenarioTick ==
    \E dt \in ShortDtSet :
        /\ fountain.time + dt <= ScenarioSeconds
        /\ UpdateWith(dt, NoImpact)

\* a tick of the long run
CycleTick ==
    \E dt \in TickSet :
        /\ fountain.time + dt <= MaxCycleTicks * LongTick
        /\ UpdateCall(dt)

\* a short tick of the particle run, under every outcome of the pass
ParticleTick ==
    \E dt \in ShortDtSet :
        /\ fountain.time + dt <= ParticleSeconds
        /\ UpdateCall(dt)

\* HeronsFountain.togglePause(): the Pause button and the Space key
TogglePause ==
    /\ app' = togglePause(app)
    /\ last' = Obs("togglePause")
    /\ UNCHANGED <<fountain, rafQueue, now, reset, timers, probe>>

\* one animation frame of the application: animate() runs, calling
\* fountain.update(clock.getDelta()) unless paused, and then the flip step
\* callbacks that were pending when the frame began
Animate ==
    \E gap \in LoopGapSet :
        LET clock == now + gap
            dt == getDelta(app.clock, clock)
            flips == ~app.isPaused /\ UpdateFlips(fountain, dt)
        IN  /\ clock <= MaxLoopSeconds * 1000
            /\ flips => Len(rafQueue) < MaxChains
            /\ now' = clock
            /\ \E rnd \in (IF app.isPaused THEN {NoImpact} ELSE Outcomes(fountain, dt)) :
                   /\ fountain' = RunSteps(IF app.isPaused THEN fountain
                                           ELSE updateRandom(fountain, dt, rnd),
                                           rafQueue, clock)
                   /\ last' = [Obs("animate") EXCEPT
                                  !.ticked = ~app.isPaused,
                                  !.dt = IF app.isPaused THEN 0 ELSE dt,
                                  !.dropped = IF app.isPaused THEN 0
                                              ELSE Dropped(fountain, dt, rnd),
                                  !.evicted = ~app.isPaused /\ Evicts(fountain, dt, rnd)]
            /\ rafQueue' = KeepSteps(rafQueue, clock)
                              \o (IF flips THEN <<FlipStep(fountain, clock)>> ELSE <<>>)
            /\ app' = IF app.isPaused THEN app
                      ELSE [app EXCEPT !.clock = ClockRead(app.clock, clock)]
            /\ UNCHANGED <<reset, timers, probe>>

\* one frame of the application left to itself, running and not paused:
\* animate() calls fountain.update(dt) with dt the time since the previous
\* frame, then the flip step callbacks that were pending run.  calm records
\* whether a tick has ended with the auto-flip condition false since the
\* last flip checkAutoFlip started.
AutoFrame ==
    \E gap \in AutoGapSet :
        LET clock == now + gap
            dt == TruncDiv(gap, 1000)
            flips == UpdateFlips(fountain, dt)
            ticked == update(fountain, dt)
        IN  /\ clock <= MaxAutoSeconds * 1000
            /\ flips => Len(rafQueue) < MaxChains
            /\ now' = clock
            /\ fountain' = RunSteps(ticked, rafQueue, clock)
            /\ rafQueue' = KeepSteps(rafQueue, clock)
                              \o (IF flips THEN <<FlipStep(fountain, clock)>> ELSE <<>>)
            /\ last' = [Obs("auto") EXCEPT
                           !.ticked = TRUE,
                           !.dt = dt,
                           !.calm = IF flips THEN FALSE
                                    ELSE last.calm \/ ~AutoFlipDue(ticked)]
            /\ UNCHANGED <<reset, timers, app, probe>>

\* createFountainParticles makes the followed slot visible; the jet is
\* emitted once and then stops for good
EmitProbe ==
    \E draw \in JetDrawSet :
        /\ ~probe.emitted
        /\ probe' = jetParticle(probe, draw)
        /\ last' = Obs("emit")
        /\ UNCHANGED <<fountain, rafQueue, now, reset, timers, app>>

\* one updateParticles pass with dt > 0 over the followed particle.  When it
\* reaches the surface, spawnSplash takes free slots for its burst and the
\* particle is hidden; the particle followed from then on is one of the burst.
\* The ripple the impact adds is counted in the visit, the list is left to
\* the particle run.
ProbeTick ==
    \E dt \in FineDtSet, draw \in SplashDrawSet :
        LET v == visit(probe, dt)
            made == spawnSplash(fountain.visible + 1, 6)
        IN  /\ probe.visible
            /\ probe' = IF v.visit.rule = "surface" /\ made > 0
                        THEN splashParticle(v.particle, v.visit.x, v.visit.y, draw)
                        ELSE v.particle
            /\ last' = [Obs("visit") EXCEPT !.dt = dt, !.particle = v.visit]
            /\ UNCHANGED <<fountain, rafQueue, now, reset, timers, app>>

\* the engine driven through its own interface by a tick driver with dt >= 0
Next ==
    \/ UpdateTick
    \/ SetFlowIntensity
    \/ FlipSystem
    \/ ResetSystem
    \/ RemoveHosesForContainer
    \/ AnimationFrame

Spec == Init /\ [][Next]_vars

\* the engine under ticks of any sign and intensities of any size
NextClamp ==
    \/ UpdateAnyTick
    \/ SetFlowIntensity
    \/ FlipSystem
    \/ ResetSystem

SpecClamp == Init /\ [][NextClamp]_vars

\* the engine with the connect commands
NextTopology ==
    \/ UpdateTick
    \/ HandleContainerClick
    \/ AddFreeformHose
    \/ AddHoseCurved

SpecTopology == Init /\ [][NextTopology]_vars

\* the application: commands arrive through the Reset controller
NextApp ==
    \/ UpdateTick
    \/ CtlFlipSystem
    \/ CtlResetSystem
    \/ TimerFires
    \/ AnimationFrame

SpecApp == Init /\ [][NextApp]_vars

\* the long run: ticks, intensity changes, hose removals, flip animations
NextCycle ==
    \/ CycleTick
    \/ SetFlowIntensity
    \/ RemoveHosesForContainer
    \/ AnimationFrame

SpecCycle == Init /\ [][NextCycle]_vars

\* the particle run: short ticks and intensity changes
NextParticles ==
    \/ ParticleTick
    \/ SetFlowIntensity

SpecParticles == Init /\ [][NextParticles]_vars

\* the scenario: the default state, an intensity, then short ticks
NextScenario ==
    \/ ScenarioStart
    \/ ScenarioTick

SpecScenario == Init /\ [][NextScenario]_vars

\* the application's animation loop with the pause control
NextLoop ==
    \/ Animate
    \/ TogglePause

SpecLoop == Init /\ [][NextLoop]_vars

\* one jet particle and the splash particles that descend from it
NextSplash ==
    \/ EmitProbe
    \/ ProbeTick

SpecSplash == Init /\ [][NextSplash]_vars

\* the same under passes that keep coming
SpecSplashFair == SpecSplash /\ WF_vars(ProbeTick)

\* the application left to itself from the default state, at the default
\* intensity or at one set before the first frame
NextAuto ==
    \/ ScenarioStart
    \/ AutoFrame

SpecAuto == Init /\ [][NextAuto]_vars

\* ------------------------------------------------------------------ claims

Sum(w) == w.A + w.B + w.C
OnlyCanonical(f) == f.hoses = addDefaultDiagramHoses
InRange(x) == x >= 0 /\ x <= Percent

\* C1: with only the three default hoses connected and dt >= 0, every update()
\* call leaves waterLevels.A + waterLevels.B + waterLevels.C as it was.
C1_Conservation ==
    [][(UpdateTick /\ OnlyCanonical(fountain))
          => Sum(fountain'.waterLevels) = Sum(fountain.waterLevels)]_vars

\* C2: an update tick in which the riser hose or the air-line hose is absent
\* from the hose list makes no jet particle visible.
C2_Gating ==
    (last.op = "update"
       /\ (~HasHose(fountain.hoses, RiserHose) \/ ~HasHose(fountain.hoses, AirLineHose)))
    => last.jet = 0

\* C3: after every update, flipSystem and resetSystem call, for every dt and
\* every intensity passed to setFlowIntensity, the three levels and the air
\* pressure lie in [0,1].
C3_Clamping ==
    /\ InRange(fountain.waterLevels.A)
    /\ InRange(fountain.waterLevels.B)
    /\ InRange(fountain.waterLevels.C)
    /\ InRange(fountain.airPressure)

\* a tick with negative dt in which updateWaterLevels had to clamp, at an
\* intensity that setFlowIntensity had to clamp
C3_Witness ==
    /\ last.op = "update"
    /\ last.dt < 0
    /\ last.clamped
    /\ fountain.flowIntensity = Percent

C5_ResetCancelsFlip ==
    [][(last.op = "resetSystem" /\ last.wasFlipping /\ AnimationFrame)
          => fountain' = fountain]_vars

\* C6: a reset command issued through the Reset controller is carried out in
\* every state: after Reset.resetSystem the engine is in the state
\* Fountain.resetSystem leaves.
C6_ResetAlwaysAccepted ==
    last.op = "Reset.resetSystem" => fountain = resetSystem(fountain)

\* C7: after a reset the engine state equals the state right after
\* construction: levels, pressure, isActive, isFlipping, and the three
\* canonical hoses connected.
C7_ResetRestoresInitial ==
    (\/ last.op = "resetSystem"
     \/ (last.op = "Reset.resetSystem" /\ last.accepted))
    => /\ fountain.waterLevels = FountainInit.waterLevels
       /\ fountain.airPressure = FountainInit.airPressure
       /\ fountain.isActive = FountainInit.isActive
       /\ fountain.isFlipping = FountainInit.isFlipping
       /\ fountain.hoses = FountainInit.hoses

\* C8: calling resetSystem twice in a row leaves the same state as calling it
\* once: on the state a reset has just left, a second reset changes nothing.
C8_IdempotentReset ==
    last.op = "resetSystem" => resetSystem(fountain) = fountain

\* a reset issued mid-flip, after simulated time has passed
C8_Witness ==
    /\ last.op = "resetSystem"
    /\ last.wasFlipping
    /\ fountain.time > 0
    /\ rafQueue # <<>>

\* C9 (as claimed): B and C keep their pre-flip values when the flip is
\* triggered, and are swapped at the Flipping -> Running transition.
C9_SwapAtCompletion ==
    [][/\ (FlipSystem /\ ~fountain.isFlipping)
            => fountain'.waterLevels = fountain.waterLevels
       /\ (AnimationFrame /\ fountain.isFlipping /\ ~fountain'.isFlipping)
            => /\ fountain'.waterLevels.B = fountain.waterLevels.C
               /\ fountain'.waterLevels.C = fountain.waterLevels.B]_vars

\* C9 (amended): flipSystem swaps B and C, zeroes the pressure and sets
\* isActive at the moment the flip is triggered; the animation frames of the
\* flip, its completion included, change no level, pressure or isActive.
C9_SwapAtTrigger ==
    [][/\ (FlipSystem /\ ~fountain.isFlipping)
            => /\ fountain'.waterLevels.B = fountain.waterLevels.C
               /\ fountain'.waterLevels.C = fountain.waterLevels.B
               /\ fountain'.waterLevels.A = fountain.waterLevels.A
               /\ fountain'.airPressure = 0
               /\ fountain'.isActive
               /\ fountain'.isFlipping
       /\ AnimationFrame
            => /\ fountain'.waterLevels = fountain.waterLevels
               /\ fountain'.airPressure = fountain.airPressure
               /\ fountain'.isActive = fountain.isActive]_vars

\* a flip of two different levels that has completed
C9_Witness ==
    /\ last.op = "frame"
    /\ last.wasFlipping
    /\ ~fountain.isFlipping
    /\ fountain.waterLevels.B # fountain.waterLevels.C

\* C10: flipSystem invoked while isFlipping is true changes nothing and starts
\* no second flip animation.
C10_FlipNoOpWhileFlipping ==
    [][(FlipSystem /\ fountain.isFlipping)
          => (fountain' = fountain /\ rafQueue' = rafQueue)]_vars

\* a flipSystem call made while a flip of two different levels was in progress
C10_Witness ==
    /\ last.op = "flipSystem"
    /\ last.wasFlipping
    /\ fountain.waterLevels.B # fountain.waterLevels.C

\* C11: flipSystem invoked while not flipping exchanges waterLevels.B and
\* waterLevels.C, sets airPressure to 0 and isActive to true, and leaves
\* waterLevels.A, the hose list and flowIntensity unchanged.
C11_FlipEffect ==
    [][(last'.op = "flipSystem" /\ ~fountain.isFlipping)
          => /\ fountain'.waterLevels.B = fountain.waterLevels.C
             /\ fountain'.waterLevels.C = fountain.waterLevels.B
             /\ fountain'.airPressure = 0
             /\ fountain'.isActive
             /\ fountain'.waterLevels.A = fountain.waterLevels.A
             /\ fountain'.hoses = fountain.hoses
             /\ fountain'.flowIntensity = fountain.flowIntensity]_vars

\* an accepted flipSystem call after the fountain has run, with hoses
\* connected, an intensity the user set, and two different side levels
C11_Witness ==
    /\ last.op = "flipSystem"
    /\ ~last.wasFlipping
    /\ fountain.time > 0
    /\ fountain.hoses # <<>>
    /\ fountain.flowIntensity = Percent
    /\ fountain.waterLevels.B # fountain.waterLevels.C
    /\ fountain.waterLevels.A # InitLevels.A

\* C12: update(dt) with dt < 0 behaves like update(0): no vessel level
\* changes, no water moves backwards from C to B, and this.time does not
\* decrease.
C12_NegativeDtClamped ==
    [][(last'.op = "update" /\ last'.dt < 0) => fountain' = update(fountain, 0)]_vars

C14_BowlLevelFixed ==
    [][(last'.op = "update" /\ OnlyCanonical(fountain))
          => fountain'.waterLevels.A = fountain.waterLevels.A]_vars

\* C15: after any sequence of public commands, every update() call runs all of
\* its steps to the end without raising an exception.
C15_NoFatalError == last.op = "update" => ~last.threw

HoseIsSelf(h) == h.from = h.to
HosesDistinct(hs) == \A i, j \in 1..Len(hs) : hs[i] = hs[j] => i = j

\* C16: connecting a vessel to itself, or a path identical to one already
\* registered, leaves the hose list unchanged: the list never holds a hose
\* from a vessel to itself, nor the same path twice.
C16_InvalidTopologyNoOp ==
    /\ \A i \in 1..Len(fountain.hoses) : ~HoseIsSelf(fountain.hoses[i])
    /\ HosesDistinct(fountain.hoses)

\* C17: when waterLevels.B and waterLevels.C are both empty the system stops:
\* after the update() call that finds them empty, isActive is false.
C17_StopsWhenEmpty ==
    (/\ last.op = "update"
     /\ fountain.waterLevels.B = 0
     /\ fountain.waterLevels.C = 0)
    => ~fountain.isActive

IsNotAirLine(h) == h # AirLineHose
WithoutAirLine(hs) == SelectSeq(hs, IsNotAirLine)
Swapped(w) == [w EXCEPT !.B = w.C, !.C = w.B]

\* C20 (as claimed): with only the air-line hose connected, update() changes
\* no vessel level.
C20_AirLineOnlyNoChange ==
    [][(last'.op = "update" /\ fountain.hoses = <<AirLineHose>>)
          => fountain'.waterLevels = fountain.waterLevels]_vars

\* C20 (amended): the air-line hose never transfers water.  With only the air
\* line connected, updateWaterFlow leaves every level as it was, so update()
\* changes the levels only when its checkAutoFlip starts a flip, and then by
\* exchanging B and C; and for every hose list the levels updateWaterFlow
\* leaves are the same with and without the air line in the list at the same
\* pressure.
C20_AirLineDry ==
    [][last'.op = "update" =>
         /\ fountain.hoses = <<AirLineHose>> =>
               fountain'.waterLevels =
                   IF UpdateFlips(fountain, last'.dt)
                   THEN Swapped(fountain.waterLevels)
                   ELSE fountain.waterLevels
         /\ updateWaterFlow(fountain.waterLevels, fountain.hoses,
                            fountain.flowIntensity, fountain.airPressure, last'.dt)
              = updateWaterFlow(fountain.waterLevels, WithoutAirLine(fountain.hoses),
                                fountain.flowIntensity, fountain.airPressure, last'.dt)]_vars

\* a tick with dt > 0 and only the air line connected, with water in C, room
\* in B and a positive intensity: a transfer along the hose would be possible
C20_Witness ==
    /\ last.op = "update"
    /\ last.dt > 0
    /\ fountain.hoses = <<AirLineHose>>
    /\ fountain.flowIntensity > 0
    /\ fountain.waterLevels.C > 0
    /\ fountain.waterLevels.B < Percent
    /\ fountain.waterLevels.B > UpperEmptyLevel

C19_RippleBufferBound ==
    LET r == fountain.activeRipples
    IN  /\ Len(r) <= maxRipples
        /\ \A i \in 1..(Len(r) - 1) : r[i] >= r[i + 1]
        /\ \A i \in 1..Len(r) : r[i] <= fountain.time
        /\ Len(addRipple(r, fountain.time)) <= maxRipples
        /\ Len(r) = maxRipples =>
             /\ addRipple(r, fountain.time)
                    = <<fountain.time>> \o SubSeq(r, 1, maxRipples - 1)
             /\ \A i \in 1..maxRipples : r[maxRipples] <= r[i]

\* an update whose impacts popped a ripple off a full list that holds ripples
\* of different ages
C19_Witness ==
    /\ last.op = "update"
    /\ last.evicted
    /\ Len(fountain.activeRipples) = maxRipples
    /\ fountain.activeRipples[1] > fountain.activeRipples[maxRipples]

\* C21: every dt the animation loop passes to fountain.update is non-negative
\* and no longer than the time since the previous animation frame; a frame
\* that finds isPaused set calls neither fountain.update nor ui.update.
C21_BoundedTick ==
    [][last'.op = "animate" =>
          /\ last'.ticked = ~app.isPaused
          /\ last'.ticked => /\ last'.dt >= 0
                             /\ last'.dt * 1000 <= now' - now]_vars

\* C22: a flip in progress ends at the first animation frame whose timestamp
\* is at least FlipDuration after the flip's start and not before: while
\* isFlipping is set by the flip registered last, any step other than a reset
\* clears it exactly when that step is such a frame.
C22_FlipEndsOnTime ==
    [][(fountain.isFlipping /\ rafQueue # <<>> /\ last'.op # "resetSystem") =>
          LET start == rafQueue[Len(rafQueue)].start
          IN  fountain'.isFlipping
                  = ~(last'.op = "frame" /\ now' - start >= FlipDuration)]_vars

\* C23: the jet particles a tick spawns are gated and sized by the air-line
\* status and the pressure computed in that tick: a tick that spawns jet
\* particles and starts no flip has the air line in its hose list, ends with
\* airPressure above the jet gate, and spawns the count that pressure gives.
C23_JetUsesTickPressure ==
    [][(last'.op = "update" /\ last'.jet > 0
          /\ fountain'.isFlipping = fountain.isFlipping) =>
          /\ HasHose(fountain.hoses, AirLineHose)
          /\ fountain'.airPressure > JetPressureGate
          /\ last'.jet = createFountainParticles(fountain.visible,
                              fountain'.airLineConnected, fountain'.airPressure,
                              fountain.flowIntensity)]_vars

\* the pressure the levels w give under a seal factor in tenths:
\* clamp01(seal * (2 * max(0, C - B) + 0.5 * min(1, (1 - A) + C)))
PressureOf(w, sealTenths) ==
    Clamp01(TruncDiv(sealTenths * (4 * Max(0, w.C - w.B)
                                     + Min(Percent, (Percent - w.A) + w.C)), 20))

LevelsAtHose(f, k, dt) ==
    HoseLoop(RiserStep(DrainStep(f.waterLevels, f.hoses, f.flowIntensity, dt),
                       f.hoses, f.flowIntensity, f.airPressure, dt),
             SubSeq(f.hoses, 1, k), f.flowIntensity, dt)

\* the rate the claim gives a hose: 0.9 * flowRate * intensity * dt, times
\* 1.6 exactly when the hose starts at the B.bottom or the C.bottom port
ClaimedRate(h, fi, dt) ==
    IF h.startObj \in {"B.bottom", "C.bottom"}
    THEN TruncDiv(16 * 9 * flowRate * fi * dt, 10000)
    ELSE TruncDiv(9 * flowRate * fi * dt, 1000)

\* m = max(0, min(rate, level[from], 1 - level[to])) on the levels w
ClaimedMove(w, h, fi, dt) ==
    Max(0, Min(ClaimedRate(h, fi, dt), Min(w[h.from], Percent - w[h.to])))

CarriesWater(h) == ~(h.startObj = "C.top" /\ h.endObj = "B.top")

C26_CollisionPriority ==
    last.op = "visit" =>
        LET e == last.particle
            within == e.x * e.x <= innerTopR * innerTopR
            floor == e.y <= bottomY - FloorMargin /\ within
            cull == /\ e.x * e.x > (innerTopR + CullMargin) * (innerTopR + CullMargin)
                    /\ e.y <= absorbY + CullBand
            surface == e.y <= absorbY /\ within
        IN  /\ e.rule = IF floor THEN "floor"
                        ELSE IF cull THEN "cull"
                        ELSE IF surface THEN "surface"
                        ELSE IF e.expired THEN "age"
                        ELSE "none"
            /\ e.rule \in {"floor", "cull", "age", "none"}
                  => e.splashes = 0 /\ e.ripples = 0
            /\ e.rule = "surface" => e.splashes = 1 /\ e.ripples = 1

\* a particle retired by the floor rule at a place where the surface rule
\* applies too
C26_Witness ==
    /\ last.op = "visit"
    /\ last.particle.rule = "floor"
    /\ last.particle.y <= absorbY
    /\ last.particle.x * last.particle.x <= innerTopR * innerTopR
    /\ ~probe.visible

\* C28: once the jet has stopped and the passes keep coming with dt > 0,
\* eventually no particle is visible any more: the particles of a splash
\* burst do not go on producing splash bursts for ever.
C28_PopulationDrains == <>[](~probe.visible)

\* C27: at most one flip animation is in flight: at most one step callback of
\* animateFlip is pending, and isFlipping is true exactly when one is pending,
\* in every state reached by ticks, flipSystem, resetSystem and animation
\* frames.
C27_OneFlipInFlight ==
    /\ Len(rafQueue) <= 1
    /\ fountain.isFlipping <=> rafQueue # <<>>

\* C30: every Reset.flipSystem call that is accepted (isAnimating false, the
\* messages are shown) exchanges waterLevels.B and waterLevels.C, in every
\* state, also while a flip started by checkAutoFlip is in progress; and
\* isAnimating is false again once the controller's timer has fired.
C30_AnnouncedFlipIsReal ==
    [][/\ (last'.op = "Reset.flipSystem" /\ last'.accepted)
            => /\ fountain'.waterLevels.B = fountain.waterLevels.C
               /\ fountain'.waterLevels.C = fountain.waterLevels.B
       /\ last'.op = "timer" => ~reset'.isAnimating]_vars

\* C29: in automatic operation from the default state (the default hoses,
\* flowIntensity > 0, dt > 0, no command) a flip started by checkAutoFlip is
\* followed, before the next one starts, by at least one completed tick that
\* leaves the auto-flip condition (C >= 0.98 or B <= 0.02) false.
C29_FlipsDoNotDegenerate ==
    [][(last'.op = "auto" /\ ~fountain.isFlipping /\ fountain'.isFlipping)
          => last.calm]_vars

====
